---- MODULE Spec2Model ----
(***************************************************************************)
(* Roles and users service of prototipo0: the SQLite-backed DataStore      *)
(* (app/db.py), the payload validation (app/schemas.py) and the domain     *)
(* service RoleService (app/main.py).                                      *)
(*                                                                         *)
(* A string is a sequence of characters; a character is a one-letter TLA+  *)
(* string, and "N~" / "n~" stand for the non-ASCII letters U+00D1 / U+00F1.*)
(* A UUID produced by uuid4() is the next value of the counter uuids.      *)
(* An exception is the name of its class; "none" is a normal return.       *)
(***************************************************************************)
EXTENDS Integers, Sequences, FiniteSets

\* ---------------------------------------------------------------- bounds
\* number of uuid4() values a run may draw (stored roles plus stored users)
MaxId == 4
\* longest role_ids list of a UserCreate payload
MaxRoleIds == 2

\* -------------------------------------------------------------- strings
RECURSIVE lstrip(_)
lstrip(s) == IF s # <<>> /\ Head(s) = " " THEN lstrip(Tail(s)) ELSE s

RECURSIVE rstrip(_)
rstrip(s) == IF s # <<>> /\ s[Len(s)] = " " THEN rstrip(SubSeq(s, 1, Len(s) - 1)) ELSE s

\* str.strip(): the whitespace at both ends is removed
strip(s) == rstrip(lstrip(s))

\* SQLite's built-in LOWER() folds the ASCII letters only
sql_lower_char(c) ==
    CASE c = "A" -> "a" [] c = "B" -> "b" [] c = "C" -> "c" [] c = "S" -> "s"
      [] OTHER -> c

\* Python's str.lower() folds every cased letter
str_lower_char(c) == IF c = "N~" THEN "n~" ELSE sql_lower_char(c)

sql_LOWER(s) == [i \in 1..Len(s) |-> sql_lower_char(s[i])]

str_lower(s) == [i \in 1..Len(s) |-> str_lower_char(s[i])]

\* code point of a character: the BINARY collation of ORDER BY name
char_code(c) ==
    CASE c = " " -> 32 [] c = "A" -> 65 [] c = "B" -> 66 [] c = "C" -> 67
      [] c = "S" -> 83 [] c = "a" -> 97 [] c = "b" -> 98 [] c = "c" -> 99
      [] c = "d" -> 100 [] c = "e" -> 101 [] c = "i" -> 105 [] c = "m" -> 109
      [] c = "n" -> 110 [] c = "o" -> 111 [] c = "p" -> 112 [] c = "r" -> 114
      [] c = "s" -> 115 [] c = "t" -> 116 [] c = "u" -> 117 [] c = "v" -> 118
      [] c = "N~" -> 209 [] c = "n~" -> 241

RECURSIVE name_le(_, _)
name_le(a, b) ==
    IF a = <<>> THEN TRUE
    ELSE IF b = <<>> THEN FALSE
    ELSE IF Head(a) # Head(b) THEN char_code(Head(a)) < char_code(Head(b))
    ELSE name_le(Tail(a), Tail(b))

\* the orders in which SELECT ... ORDER BY name may return the rows: sorted
\* by name, rows of equal name in any order
RECURSIVE OrderByName(_)
OrderByName(rows) ==
    IF rows = {} THEN { <<>> }
    ELSE UNION {{<<first>> \o rest : rest \in OrderByName(rows \ {first})} :
                   first \in {x \in rows : \A y \in rows : name_le(x.name, y.name)}}

\* the rows of SELECT ... ORDER BY position
RECURSIVE OrderByPosition(_)
OrderByPosition(rows) ==
    IF rows = {} THEN <<>>
    ELSE LET first == CHOOSE x \in rows : \A y \in rows : x.position <= y.position
         IN  <<first>> \o OrderByPosition(rows \ {first})

\* --------------------------------------------------------------- schemas
Raise(e) == [exc |-> e]

Return(v) == [exc |-> "none", val |-> v]

\* mutant: only ValueError itself is caught by `except ValueError`
IsValueError_exact(e) == e = "ValueError"

\* ValidationError is a subclass of ValueError
IsValueError(e) == e \in {"ValueError", "ValidationError"}

\* mutant: the length is checked on the untrimmed name
normalize_name_untrimmed(raw, minimum) ==
    LET name == strip(raw)
    IN  IF Len(raw) < minimum THEN Raise("ValidationError") ELSE Return(name)

normalize_name(raw, minimum) ==
    LET name == strip(raw)
    IN  IF Len(name) < minimum THEN Raise("ValidationError") ELSE Return(name)

normalize_menus(raw_menus) ==
    IF \E i \in 1..Len(raw_menus) : strip(raw_menus[i]) = <<>>
    THEN Raise("ValidationError")
    ELSE Return([i \in 1..Len(raw_menus) |-> strip(raw_menus[i])])

RoleCreate_normalized(payload) ==
    LET name  == normalize_name(payload.name, 3)
        menus == normalize_menus(payload.menus)
    IN  IF name.exc # "none" THEN name
        ELSE IF menus.exc # "none" THEN menus
        ELSE Return([name |-> name.val, menus |-> menus.val,
                     is_super_admin |-> payload.is_super_admin])

\* mutant: the role ids are kept as given
unique_roles_kept(ids) == ids

\* list(dict.fromkeys(ids)): the first occurrence of every id, in order
RECURSIVE unique_roles(_)
unique_roles(ids) ==
    IF ids = <<>> THEN <<>>
    ELSE LET front == unique_roles(SubSeq(ids, 1, Len(ids) - 1))
             last  == ids[Len(ids)]
         IN  IF \E i \in 1..Len(front) : front[i] = last THEN front
             ELSE Append(front, last)

\* mutant: an empty role id list is let through
UserCreate_normalized_unchecked(payload) ==
    LET name == normalize_name(payload.name, 1)
    IN  IF name.exc # "none" THEN name
        ELSE Return([name |-> name.val, role_ids |-> unique_roles(payload.role_ids)])

UserCreate_normalized(payload) ==
    IF payload.role_ids = <<>> THEN Raise("ValidationError")
    ELSE LET name == normalize_name(payload.name, 1)
         IN  IF name.exc # "none" THEN name
             ELSE Return([name |-> name.val, role_ids |-> unique_roles(payload.role_ids)])

\* ----------------------------------------------------------------- state
VARIABLES
    roles,          \* table roles: rows [id, name, menus, is_super_admin]
    users,          \* table users: rows [id, name]
    user_roles,     \* table user_roles: rows [user_id, role_id, position]
    uuids,          \* how many values uuid4() has produced
    has_roles_attr, \* whether the datastore object handed to RoleService has a
                    \* `roles` attribute (the DataStore of app/db.py has none)
    service,        \* "unbuilt", "ready" (RoleService.__init__ returned), "failed"
    call,           \* the call the caller has made and not yet left behind: its
                    \* operation and arguments (op "none": about to make a call)
    result,         \* what that call gave: [exc, val]
    pc,             \* concurrent callers: where each thread stands in its call
    frame,          \* concurrent callers: the locals and the result of each thread
    lock            \* the thread that holds DataStore._lock, or "none"

store == <<roles, users, user_roles>>

threads == <<pc, frame, lock>>

vars == <<roles, users, user_roles, uuids, has_roles_attr, service, call, result, pc, frame,
          lock>>

\* ------------------------------------------------------------- inputs
SuperAdminName ==
    <<"S", "u", "p", "e", "r", " ", "A", "d", "m", "i", "n", "i", "s", "t", "r", "a", "d", "o", "r">>

SuperAdminMenus == << <<"a", "d", "m", "i", "n">> >>

\* role names a caller sends: too short once trimmed, plain, padded upper
\* case, and two spellings of a name with a non-ASCII letter
ShortName == <<" ", "a", "b">>

RoleNames ==
    { <<"a", "b", "c">>, <<" ", "A", "B", "C", " ">>, <<"n~", "a", "b">>, <<"N~", "A", "B">> }

\* menu lists a caller sends; BlankMenus holds an entry that is blank
MenusOf(name) ==
    IF name \in { <<"a", "b", "c">>, <<"N~", "A", "B">> }
    THEN << <<" ", "m">>, <<"n">> >>
    ELSE << <<"n">>, <<"m", " ">>, <<"n">> >>

BlankMenus == << <<"n">>, <<" ">> >>

RoleCreates ==
    {[name |-> n, menus |-> MenusOf(n), is_super_admin |-> f] :
        n \in RoleNames \cup {ShortName}, f \in BOOLEAN}
    \cup {[name |-> n, menus |-> BlankMenus, is_super_admin |-> f] :
        n \in { <<"a", "b", "c">> }, f \in BOOLEAN}

\* user names a caller sends: two valid ones, one of them padded, and a blank one
UserNames == { <<"u">>, <<" ", "v">> }

BlankName == <<" ">>

\* a UUID that uuid4() never returned
UnknownId == 999

\* the role ids a caller sends: those of the stored roles and an unknown one
RoleIds == {r.id : r \in roles} \cup {UnknownId}

RoleIdLists == UNION {[1..n -> RoleIds] : n \in 0..MaxRoleIds}

UserCreates ==
    [name : UserNames, role_ids : RoleIdLists]
    \cup [name : {BlankName}, role_ids : {ids \in RoleIdLists : Len(ids) <= 1}]

\* the user ids a caller sends: those of the stored users and two unknown ones
UserIds == {u.id : u \in users} \cup {UnknownId, UnknownId - 1}

\* the threads that call the service concurrently
Threads == {"t1", "t2"}

\* ---------------------------------------------------------- DataStore
\* uuid4(): a value no earlier call returned
uuid4 == uuids + 1

\* the row of the bootstrap role
SuperAdminRole(role_id) ==
    [id |-> role_id, name |-> SuperAdminName, menus |-> SuperAdminMenus,
     is_super_admin |-> TRUE]

\* INSERT INTO roles: the UNIQUE constraint on name compares exactly
roles_insert(role) ==
    IF \E r \in roles : r.name = role.name \/ r.id = role.id
    THEN Raise("IntegrityError")
    ELSE Return(roles \cup {role})

\* SELECT 1 FROM roles WHERE LOWER(name) = ?  with the lower-cased name
role_name_exists(name) == \E r \in roles : sql_LOWER(r.name) = str_lower(name)

\* DataStore.create_role: the exception raised, or the row to insert
DataStore_create_role(payload) ==
    LET normalized == RoleCreate_normalized(payload)
    IN  IF normalized.exc # "none" THEN normalized
        ELSE IF role_name_exists(normalized.val.name) THEN Raise("ValueError")
        ELSE IF normalized.val.is_super_admin THEN Raise("ValueError")
        ELSE LET role == [id |-> uuid4, name |-> normalized.val.name,
                          menus |-> normalized.val.menus,
                          is_super_admin |-> normalized.val.is_super_admin]
             IN  IF roles_insert(role).exc # "none" THEN roles_insert(role)
                 ELSE Return(role)

role_is_super_admin(role_id) ==
    IF \E r \in roles : r.id = role_id
    THEN Return((CHOOSE r \in roles : r.id = role_id).is_super_admin)
    ELSE Raise("KeyError")

\* mutant: the check for a stored super-admin user is skipped
super_admin_user_exists_skipped == FALSE

super_admin_user_exists ==
    \E u \in users, ur \in user_roles, r \in roles :
        u.id = ur.user_id /\ r.id = ur.role_id /\ r.is_super_admin

\* mutant: only the first role id is looked up
missing_roles_first_only(role_ids) ==
    {i \in {1} : role_is_super_admin(role_ids[i]).exc = "KeyError"}

\* the loop of create_user over the normalized role ids
missing_roles(role_ids) ==
    {i \in 1..Len(role_ids) : role_is_super_admin(role_ids[i]).exc = "KeyError"}

includes_super_admin(role_ids) ==
    \E i \in 1..Len(role_ids) :
        /\ role_is_super_admin(role_ids[i]).exc = "none"
        /\ role_is_super_admin(role_ids[i]).val

\* mutant: the associations are inserted for every stored user as well
user_role_rows_for_all(user_id, role_ids) ==
    {[user_id |-> u, role_id |-> role_ids[i], position |-> i - 1] :
        u \in {user_id} \cup {x.id : x \in users}, i \in 1..Len(role_ids)}

\* the rows create_user inserts into user_roles
user_role_rows(user_id, role_ids) ==
    {[user_id |-> user_id, role_id |-> role_ids[i], position |-> i - 1] :
        i \in 1..Len(role_ids)}

\* DataStore.create_user: the exception raised, or the User created
DataStore_create_user(payload) ==
    LET normalized == UserCreate_normalized(payload)
    IN  IF normalized.exc # "none" THEN normalized
        ELSE IF missing_roles(normalized.val.role_ids) # {} THEN Raise("KeyError")
        ELSE IF includes_super_admin(normalized.val.role_ids) /\ super_admin_user_exists
             THEN Raise("ValueError")
        ELSE Return([id |-> uuid4, name |-> normalized.val.name,
                     role_ids |-> normalized.val.role_ids])

\* roles JOIN user_roles WHERE user_id = ? ORDER BY position, over given tables
fetch_roles_in(rs, urs, user_id) ==
    LET joined == {[position |-> ur.position, role |-> r] :
                      <<ur, r>> \in {x \in urs \X rs :
                                        x[1].user_id = user_id /\ x[2].id = x[1].role_id}}
        ordered == OrderByPosition(joined)
    IN  [i \in 1..Len(ordered) |-> ordered[i].role]

fetch_roles_for_user(user_id) == fetch_roles_in(roles, user_roles, user_id)

build_user_read(user) ==
    [id |-> user.id, name |-> user.name, roles |-> fetch_roles_for_user(user.id)]

user_role_ids(user_id) ==
    LET ordered == OrderByPosition({ur \in user_roles : ur.user_id = user_id})
    IN  [i \in 1..Len(ordered) |-> ordered[i].role_id]

DataStore_get_user(user_id) ==
    IF \E u \in users : u.id = user_id
    THEN Return([id |-> user_id, name |-> (CHOOSE u \in users : u.id = user_id).name,
                 role_ids |-> user_role_ids(user_id)])
    ELSE Raise("KeyError")

\* mutant: the query forgets the condition on the flag
is_super_admin_any_role(user_id) == \E ur \in user_roles : ur.user_id = user_id

\* mutant: the query looks at the first role only
is_super_admin_first_role(user_id) ==
    \E ur \in user_roles, r \in roles :
        r.id = ur.role_id /\ ur.user_id = user_id /\ r.is_super_admin /\ ur.position = 0

is_super_admin(user_id) ==
    \E ur \in user_roles, r \in roles :
        r.id = ur.role_id /\ ur.user_id = user_id /\ r.is_super_admin

\* DataStore.list_users: the lists it may return (rows of equal name in any order)
DataStore_list_users ==
    {[i \in 1..Len(rows) |-> build_user_read(rows[i])] : rows \in OrderByName(users)}

DataStore_list_roles == OrderByName(roles)

\* the menus of the roles, concatenated in role order
RECURSIVE role_menus(_)
role_menus(rs) == IF rs = <<>> THEN <<>> ELSE Head(rs).menus \o role_menus(Tail(rs))

\* mutant: every menu is appended, seen or not
unseen_menus_kept(ms) == ms

\* the loop of list_menus_for_user: a menu is appended unless already seen
RECURSIVE unseen_menus(_)
unseen_menus(ms) ==
    IF ms = <<>> THEN <<>>
    ELSE LET menus == unseen_menus(SubSeq(ms, 1, Len(ms) - 1))
             menu  == ms[Len(ms)]
         IN  IF \E i \in 1..Len(menus) : menus[i] = menu THEN menus
             ELSE Append(menus, menu)

list_menus_for_user(user_id) == unseen_menus(role_menus(fetch_roles_for_user(user_id)))

\* -------------------------------------------------------- RoleService
\* the `roles` attribute RoleService.__init__ reads from its datastore: the
\* roles the repository currently holds
datastore_roles == roles

\* mutant: ValueError is not caught
create_role_error_untranslated(exc) == exc

\* the service's translation of the exceptions of DataStore.create_role
create_role_error(exc) == IF IsValueError(exc) THEN "BadRequestError" ELSE exc

\* mutant: the two except clauses raise each other's error
create_user_error_swapped(exc) ==
    IF IsValueError(exc) THEN "NotFoundError"
    ELSE IF exc = "KeyError" THEN "BadRequestError"
    ELSE exc

\* the service's translation of the exceptions of DataStore.create_user
create_user_error(exc) ==
    IF IsValueError(exc) THEN "BadRequestError"
    ELSE IF exc = "KeyError" THEN "NotFoundError"
    ELSE exc

\* mutant: the KeyError of the datastore is not translated
get_current_user_untranslated(user_id) ==
    LET user == DataStore_get_user(user_id)
    IN  IF user.exc = "KeyError" THEN user
        ELSE Return(build_user_read(user.val))

get_current_user(user_id) ==
    LET user == DataStore_get_user(user_id)
    IN  IF user.exc = "KeyError" THEN Raise("NotFoundError")
        ELSE Return(build_user_read(user.val))

\* mutant: a super admin may view only itself
may_view_self_only(requester_id, user_id) == requester_id = user_id

\* mutant: the negation of the super-admin test is lost
may_view_negated(requester_id, user_id) ==
    requester_id = user_id \/ ~is_super_admin(requester_id)

\* the guard of RoleService.get_user: oneself, or anyone for a super admin
may_view(requester_id, user_id) == requester_id = user_id \/ is_super_admin(requester_id)

Init ==
    /\ roles = {}
    /\ users = {}
    /\ user_roles = {}
    /\ uuids = 0
    /\ has_roles_attr \in BOOLEAN
    /\ service = "unbuilt"
    /\ call = [op |-> "none"]
    /\ result = [exc |-> "none"]
    /\ pc = [t \in Threads |-> "idle"]
    /\ frame = [t \in Threads |-> [op |-> "none"]]
    /\ lock = "none"

\* RoleService(datastore): the bootstrap of the super-admin role
RoleService_init ==
    /\ call.op = "none"
    /\ call' = [op |-> "RoleService"]
    /\ IF ~has_roles_attr
       THEN /\ result' = Raise("AttributeError")
            /\ service' = "failed"
            /\ UNCHANGED <<roles, uuids>>
       ELSE /\ datastore_roles = {} => uuids < MaxId
            /\ IF datastore_roles = {}
               THEN /\ roles' = roles_insert(SuperAdminRole(uuid4)).val
                    /\ uuids' = uuids + 1
               ELSE UNCHANGED <<roles, uuids>>
            /\ result' = [exc |-> "none"]
            /\ service' = "ready"
    /\ UNCHANGED <<users, user_roles, has_roles_attr, threads>>

RoleService_create_role(payload) ==
    LET created == DataStore_create_role(payload)
    IN  /\ service = "ready"
        /\ call.op = "none"
        /\ created.exc = "none" => uuids < MaxId
        /\ call' = [op |-> "create_role", payload |-> payload]
        /\ IF created.exc = "none"
           THEN /\ roles' = roles_insert(created.val).val
                /\ uuids' = uuids + 1
                /\ result' = Return(created.val)
           ELSE /\ result' = Raise(create_role_error(created.exc))
                /\ UNCHANGED <<roles, uuids>>
        /\ UNCHANGED <<users, user_roles, has_roles_attr, service, threads>>

RoleService_list_roles ==
    /\ service = "ready"
    /\ call.op = "none"
    /\ call' = [op |-> "list_roles"]
    /\ \E listed \in DataStore_list_roles : result' = Return(listed)
    /\ UNCHANGED <<roles, users, user_roles, uuids, has_roles_attr, service, threads>>

RoleService_create_user(payload) ==
    LET created == DataStore_create_user(payload)
    IN  /\ service = "ready"
        /\ call.op = "none"
        /\ created.exc = "none" => uuids < MaxId
        /\ call' = [op |-> "create_user", payload |-> payload]
        /\ IF created.exc = "none"
           THEN /\ users' = users \cup {[id |-> created.val.id, name |-> created.val.name]}
                /\ user_roles' = user_roles \cup
                                    user_role_rows(created.val.id, created.val.role_ids)
                /\ uuids' = uuids + 1
                /\ result' = Return([id |-> created.val.id, name |-> created.val.name,
                                     roles |-> fetch_roles_in(roles, user_roles',
                                                              created.val.id)])
           ELSE /\ result' = Raise(create_user_error(created.exc))
                /\ UNCHANGED <<users, user_roles, uuids>>
        /\ UNCHANGED <<roles, has_roles_attr, service, threads>>

RoleService_list_users(requester_id) ==
    /\ service = "ready"
    /\ call.op = "none"
    /\ call' = [op |-> "list_users", requester_id |-> requester_id]
    /\ IF is_super_admin(requester_id)
       THEN \E listed \in DataStore_list_users : result' = Return(listed)
       ELSE LET requester == get_current_user(requester_id)
            IN  result' = IF requester.exc # "none" THEN requester
                          ELSE Return(<<requester.val>>)
    /\ UNCHANGED <<roles, users, user_roles, uuids, has_roles_attr, service, threads>>

RoleService_get_user(requester_id, user_id) ==
    /\ service = "ready"
    /\ call.op = "none"
    /\ call' = [op |-> "get_user", requester_id |-> requester_id, user_id |-> user_id]
    /\ result' = IF ~may_view(requester_id, user_id)
                 THEN Raise("PermissionError")
                 ELSE get_current_user(user_id)
    /\ UNCHANGED <<roles, users, user_roles, uuids, has_roles_attr, service, threads>>

RoleService_list_my_menus(requester_id) ==
    /\ service = "ready"
    /\ call.op = "none"
    /\ call' = [op |-> "list_my_menus", requester_id |-> requester_id]
    /\ result' = IF get_current_user(requester_id).exc # "none"
                 THEN get_current_user(requester_id)
                 ELSE Return(list_menus_for_user(requester_id))
    /\ UNCHANGED <<roles, users, user_roles, uuids, has_roles_attr, service, threads>>

\* calls are made one at a time: the caller has the outcome of its call and
\* goes on to the next call
caller_next ==
    /\ call.op # "none"
    /\ call' = [op |-> "none"]
    /\ result' = [exc |-> "none"]
    /\ UNCHANGED <<roles, users, user_roles, uuids, has_roles_attr, service, threads>>

Next ==
    \/ caller_next
    \/ RoleService_init
    \/ \E payload \in RoleCreates : RoleService_create_role(payload)
    \/ RoleService_list_roles
    \/ \E payload \in UserCreates : RoleService_create_user(payload)
    \/ \E requester_id \in UserIds : RoleService_list_users(requester_id)
    \/ \E requester_id, user_id \in UserIds : RoleService_get_user(requester_id, user_id)
    \/ \E requester_id \in UserIds : RoleService_list_my_menus(requester_id)

Spec == Init /\ [][Next]_vars

\* ------------------------------------------------ concurrent callers
\* Threads call RoleService.create_user at the same time. DataStore takes its
\* lock once per query, so a step is one `with self._lock` block together with
\* the thread-local code that follows it.

\* a role a caller created before the concurrent calls start
PlainRole(role_id) ==
    [id |-> role_id, name |-> <<"a", "b", "c">>, menus |-> << <<"m">>, <<"n">> >>,
     is_super_admin |-> FALSE]

\* the payloads of the concurrent calls
ConcUserCreates ==
    [name : { <<"u">> }, role_ids : RoleIdLists \ { <<>> }]
    \cup {[name |-> BlankName, role_ids |-> <<>>]}

\* the role payloads of the concurrent calls: one name in two letter cases
ConcRoleCreates ==
    {[name |-> n, menus |-> << <<"m">> >>, is_super_admin |-> FALSE] :
        n \in { <<"c", "b", "a">>, <<"C", "B", "A">> }}

\* the user ids the concurrent reads ask for
ConcUserIds == {u.id : u \in users} \cup {UnknownId}

\* the calls of create_user and create_role that have not inserted yet
Inserting ==
    {t \in Threads : pc[t] \in {"role_is_super_admin", "super_admin_user_exists", "insert",
                                "roles_insert"}}

\* the service bootstrapped and one plain role created, no call in progress
InitConc ==
    /\ roles = {SuperAdminRole(1), PlainRole(2)}
    /\ users = {}
    /\ user_roles = {}
    /\ uuids = 2
    /\ has_roles_attr = TRUE
    /\ service = "ready"
    /\ call = [op |-> "none"]
    /\ result = [exc |-> "none"]
    /\ pc = [t \in Threads |-> "idle"]
    /\ frame = [t \in Threads |-> [op |-> "none"]]
    /\ lock = "none"

\* the call returns or raises: the thread is idle again and keeps the outcome
Returned(t, payload, outcome) ==
    /\ pc' = [pc EXCEPT ![t] = "idle"]
    /\ frame' = [frame EXCEPT ![t] = [op |-> "create_user", payload |-> payload,
                                      result |-> outcome]]

\* create_user is entered: the payload is normalized
create_user_enter(t, payload) ==
    LET normalized == UserCreate_normalized(payload)
    IN  /\ pc[t] = "idle"
        /\ uuids + Cardinality(Inserting) < MaxId
        /\ IF normalized.exc # "none"
           THEN Returned(t, payload, Raise(create_user_error(normalized.exc)))
           ELSE /\ pc' = [pc EXCEPT ![t] = "role_is_super_admin"]
                /\ frame' = [frame EXCEPT ![t] =
                      [op |-> "create_user", payload |-> payload,
                       name |-> normalized.val.name, role_ids |-> normalized.val.role_ids,
                       index |-> 1, missing_roles |-> {}, includes_super_admin |-> FALSE]]
        /\ UNCHANGED <<roles, users, user_roles, uuids, has_roles_attr, service, call, result>>

\* one turn of the loop over the role ids: _role_is_super_admin under the lock
create_user_check_role(t) ==
    LET f       == frame[t]
        checked == role_is_super_admin(f.role_ids[f.index])
        missing == IF checked.exc = "KeyError" THEN f.missing_roles \cup {f.role_ids[f.index]}
                   ELSE f.missing_roles
        flagged == f.includes_super_admin \/ (checked.exc = "none" /\ checked.val)
    IN  /\ pc[t] = "role_is_super_admin"
        /\ IF f.index < Len(f.role_ids)
           THEN /\ frame' = [frame EXCEPT ![t] = [f EXCEPT !.index = f.index + 1,
                                                           !.missing_roles = missing,
                                                           !.includes_super_admin = flagged]]
                /\ UNCHANGED pc
           ELSE IF missing # {}
           THEN Returned(t, f.payload, Raise(create_user_error("KeyError")))
           ELSE /\ frame' = [frame EXCEPT ![t] = [f EXCEPT !.missing_roles = missing,
                                                           !.includes_super_admin = flagged]]
                /\ pc' = [pc EXCEPT ![t] = IF flagged THEN "super_admin_user_exists"
                                           ELSE "insert"]
        /\ UNCHANGED <<roles, users, user_roles, uuids, has_roles_attr, service, call, result>>

\* _super_admin_user_exists under the lock, then the lock is released
create_user_check_exists(t) ==
    /\ pc[t] = "super_admin_user_exists"
    /\ IF super_admin_user_exists
       THEN Returned(t, frame[t].payload, Raise(create_user_error("ValueError")))
       ELSE /\ pc' = [pc EXCEPT ![t] = "insert"]
            /\ UNCHANGED frame
    /\ UNCHANGED <<roles, users, user_roles, uuids, has_roles_attr, service, call, result>>

\* the user and its associations are inserted in one transaction under the lock
create_user_insert(t) ==
    /\ pc[t] = "insert"
    /\ users' = users \cup {[id |-> uuid4, name |-> frame[t].name]}
    /\ user_roles' = user_roles \cup user_role_rows(uuid4, frame[t].role_ids)
    /\ uuids' = uuids + 1
    /\ pc' = [pc EXCEPT ![t] = "build_user_read"]
    /\ frame' = [frame EXCEPT ![t] = [op |-> "create_user", payload |-> frame[t].payload,
                                      user |-> [id |-> uuid4, name |-> frame[t].name,
                                                role_ids |-> frame[t].role_ids]]]
    /\ UNCHANGED <<roles, has_roles_attr, service, call, result>>

\* the service builds the read view of the created user
create_user_build_read(t) ==
    /\ pc[t] = "build_user_read"
    /\ Returned(t, frame[t].payload, Return(build_user_read(frame[t].user)))
    /\ UNCHANGED <<roles, users, user_roles, uuids, has_roles_attr, service, call, result>>

\* a call other than create_user returns or raises
Finished(t, f, outcome) ==
    /\ pc' = [pc EXCEPT ![t] = "idle"]
    /\ frame' = [frame EXCEPT ![t] = [op |-> f.op, args |-> f.args, result |-> outcome]]

\* create_role is entered: the payload is normalized, the name is looked up
\* under the lock and the lock is released
create_role_check(t, payload) ==
    LET normalized == RoleCreate_normalized(payload)
        f == [op |-> "create_role", args |-> payload]
    IN  /\ pc[t] = "idle"
        /\ uuids + Cardinality(Inserting) < MaxId
        /\ IF normalized.exc # "none"
           THEN Finished(t, f, Raise(create_role_error(normalized.exc)))
           ELSE IF role_name_exists(normalized.val.name) \/ normalized.val.is_super_admin
           THEN Finished(t, f, Raise(create_role_error("ValueError")))
           ELSE /\ pc' = [pc EXCEPT ![t] = "roles_insert"]
                /\ frame' = [frame EXCEPT ![t] =
                      [op |-> "create_role", args |-> payload, role |-> normalized.val]]
        /\ UNCHANGED <<roles, users, user_roles, uuids, has_roles_attr, service, call, result>>

\* the role is inserted under the lock, taken a second time
create_role_insert(t) ==
    LET f == frame[t]
        role == [id |-> uuid4, name |-> f.role.name, menus |-> f.role.menus,
                 is_super_admin |-> f.role.is_super_admin]
        inserted == roles_insert(role)
    IN  /\ pc[t] = "roles_insert"
        /\ IF inserted.exc # "none"
           THEN /\ Finished(t, f, Raise(create_role_error(inserted.exc)))
                /\ UNCHANGED <<roles, uuids>>
           ELSE /\ roles' = inserted.val
                /\ uuids' = uuids + 1
                /\ Finished(t, f, Return(role))
        /\ UNCHANGED <<users, user_roles, has_roles_attr, service, call, result>>

\* DataStore.reset: the three tables are emptied in one transaction
reset(t) ==
    /\ pc[t] = "idle"
    /\ roles' = {}
    /\ users' = {}
    /\ user_roles' = {}
    /\ Finished(t, [op |-> "reset", args |-> <<>>], Return(<<>>))
    /\ UNCHANGED <<uuids, has_roles_attr, service, call, result>>

\* the first lock region of DataStore.get_user: the row of the user
select_user(t, f, user_id) ==
    IF \E u \in users : u.id = user_id
    THEN /\ pc' = [pc EXCEPT ![t] = "user_role_ids"]
         /\ frame' = [frame EXCEPT ![t] =
               [op |-> f.op, args |-> f.args, rows |-> << CHOOSE u \in users : u.id = user_id >>,
                role_ids |-> <<>>, out |-> <<>>]]
    ELSE Finished(t, f, Raise("NotFoundError"))

\* RoleService.get_user of a user for itself: no permission lookup is made
get_user_select(t, user_id) ==
    /\ pc[t] = "idle"
    /\ select_user(t, [op |-> "get_user", args |-> <<user_id, user_id>>], user_id)
    /\ UNCHANGED <<roles, users, user_roles, uuids, has_roles_attr, service, call, result>>

\* RoleService.list_users is entered: is_super_admin under the lock
list_users_is_super_admin(t, requester_id) ==
    /\ pc[t] = "idle"
    /\ pc' = [pc EXCEPT ![t] = IF is_super_admin(requester_id) THEN "list_users"
                               ELSE "get_current_user"]
    /\ frame' = [frame EXCEPT ![t] = [op |-> "list_users", args |-> <<requester_id>>]]
    /\ UNCHANGED <<roles, users, user_roles, uuids, has_roles_attr, service, call, result>>

\* list_users of a requester that is no super admin: the requester is fetched
list_users_get_current(t) ==
    /\ pc[t] = "get_current_user"
    /\ select_user(t, frame[t], frame[t].args[1])
    /\ UNCHANGED <<roles, users, user_roles, uuids, has_roles_attr, service, call, result>>

\* DataStore.list_users: the rows of users are selected under the lock
list_users_select(t) ==
    /\ pc[t] = "list_users"
    /\ \E rows \in OrderByName(users) :
          IF rows = <<>>
          THEN Finished(t, frame[t], Return(<<>>))
          ELSE /\ pc' = [pc EXCEPT ![t] = "user_role_ids"]
               /\ frame' = [frame EXCEPT ![t] =
                     [op |-> "list_users", args |-> frame[t].args, rows |-> rows,
                      role_ids |-> <<>>, out |-> <<>>]]
    /\ UNCHANGED <<roles, users, user_roles, uuids, has_roles_attr, service, call, result>>

\* _user_role_ids of the next selected row, under the lock
read_user_role_ids(t) ==
    /\ pc[t] = "user_role_ids"
    /\ pc' = [pc EXCEPT ![t] = "fetch_roles"]
    /\ frame' = [frame EXCEPT ![t].role_ids = user_role_ids(Head(frame[t].rows).id)]
    /\ UNCHANGED <<roles, users, user_roles, uuids, has_roles_attr, service, call, result>>

\* build_user_read of that row: _fetch_roles_for_user under the lock; then the
\* next row, or the call returns
read_fetch_roles(t) ==
    LET f   == frame[t]
        out == Append(f.out, build_user_read(Head(f.rows)))
    IN  /\ pc[t] = "fetch_roles"
        /\ IF Len(f.rows) > 1
           THEN /\ pc' = [pc EXCEPT ![t] = "user_role_ids"]
                /\ frame' = [frame EXCEPT ![t] = [f EXCEPT !.rows = Tail(f.rows),
                                                           !.role_ids = <<>>,
                                                           !.out = out]]
           ELSE Finished(t, f, Return(IF f.op = "get_user" THEN out[1] ELSE out))
        /\ UNCHANGED <<roles, users, user_roles, uuids, has_roles_attr, service, call, result>>

\* every step below runs one `with self._lock` block from its entry to its
\* exit, so that the lock is free before and after it
NextConc ==
    \E t \in Threads :
        \/ (\E payload \in ConcUserCreates : create_user_enter(t, payload)) /\ UNCHANGED lock
        \/ create_user_check_role(t) /\ UNCHANGED lock
        \/ create_user_check_exists(t) /\ UNCHANGED lock
        \/ create_user_insert(t) /\ UNCHANGED lock
        \/ create_user_build_read(t) /\ UNCHANGED lock
        \/ (\E payload \in ConcRoleCreates : create_role_check(t, payload)) /\ UNCHANGED lock
        \/ create_role_insert(t) /\ UNCHANGED lock
        \/ reset(t) /\ UNCHANGED lock
        \/ (\E user_id \in ConcUserIds : get_user_select(t, user_id)) /\ UNCHANGED lock
        \/ (\E requester_id \in ConcUserIds : list_users_is_super_admin(t, requester_id))
              /\ UNCHANGED lock
        \/ list_users_get_current(t) /\ UNCHANGED lock
        \/ list_users_select(t) /\ UNCHANGED lock
        \/ read_user_role_ids(t) /\ UNCHANGED lock
        \/ read_fetch_roles(t) /\ UNCHANGED lock

SpecConc == InitConc /\ [][NextConc]_vars

\* ------------------------------------------- the lock, entry and exit apart
\* the user payloads of the callers: one that succeeds, one that names the
\* super-admin role, one that names an unknown role, one that fails validation
FairUserCreates ==
    {[name |-> <<"u">>, role_ids |-> ids] : ids \in { <<2>>, <<1, 2>>, <<2, UnknownId>> }}
    \cup {[name |-> BlankName, role_ids |-> <<>>]}

\* mutant: the exit of the `with` block leaves the lock with the thread
lock_after_held(t) == t

\* the exit of a `with self._lock` block, by return or by exception: the lock
\* is released
lock_after(t) == "none"

\* the entry of a `with self._lock` block: the thread waits until the lock is
\* free and takes it
lock_acquire(t) ==
    /\ lock = "none"
    /\ lock' = t
    /\ UNCHANGED <<roles, users, user_roles, uuids, has_roles_attr, service, call, result,
                   pc, frame>>

\* the thread holds the lock, runs the block and leaves it
lock_held(t) ==
    /\ lock = t
    /\ lock' = lock_after(t)

\* the steps of thread t in the blocks it runs under the lock
LockedStep(t) ==
    \/ lock_held(t) /\ create_user_check_role(t)
    \/ lock_held(t) /\ create_user_check_exists(t)
    \/ lock_held(t) /\ create_user_insert(t)
    \/ lock_held(t) /\ create_user_build_read(t)
    \/ lock_held(t) /\ (\E payload \in ConcRoleCreates : create_role_check(t, payload))
    \/ lock_held(t) /\ create_role_insert(t)
    \/ lock_held(t) /\ reset(t)
    \/ lock_held(t) /\ (\E user_id \in ConcUserIds : get_user_select(t, user_id))
    \/ lock_held(t) /\ (\E requester_id \in ConcUserIds : list_users_is_super_admin(t, requester_id))
    \/ lock_held(t) /\ list_users_get_current(t)
    \/ lock_held(t) /\ list_users_select(t)
    \/ lock_held(t) /\ read_user_role_ids(t)
    \/ lock_held(t) /\ read_fetch_roles(t)

\* create_user starts with the normalization of the payload, outside the lock
UnlockedStep(t) ==
    /\ lock # t
    /\ \E payload \in FairUserCreates : create_user_enter(t, payload)
    /\ UNCHANGED lock

NextFair ==
    \E t \in Threads :
        \/ lock_acquire(t)
        \/ UnlockedStep(t)
        \/ LockedStep(t)

\* the service bootstrapped, one plain role created, then the super-admin user
\* and plain users, so that one identifier is left; no call in progress
InitFair ==
    /\ roles = {SuperAdminRole(1), PlainRole(2)}
    /\ users = {[id |-> i, name |-> <<"u">>] : i \in 3..(MaxId - 1)}
    /\ user_roles = UNION {user_role_rows(i, IF i = 3 THEN <<1, 2>> ELSE <<2>>) :
                              i \in 3..(MaxId - 1)}
    /\ uuids = MaxId - 1
    /\ has_roles_attr = TRUE
    /\ service = "ready"
    /\ call = [op |-> "none"]
    /\ result = [exc |-> "none"]
    /\ pc = [t \in Threads |-> "idle"]
    /\ frame = [t \in Threads |-> [op |-> "none"]]
    /\ lock = "none"

\* the scheduler is fair: a thread that holds the lock goes on, and a thread
\* inside a call that waits for the lock gets it when it is free again and again
Fairness ==
    \A t \in Threads :
        /\ WF_vars(LockedStep(t))
        /\ SF_vars(pc[t] # "idle" /\ lock_acquire(t))

SpecFair == InitFair /\ [][NextFair]_vars /\ Fairness

\* ------------------------------------------------- vocabulary of the claims
StoredUserIds == {u.id : u \in users}

StoredRoleIds == {r.id : r \in roles}

FlaggedRoleIds == {r.id : r \in {x \in roles : x.is_super_admin}}

\* the user holds a role whose is_super_admin flag is true
HoldsFlaggedRole(user_id) ==
    \E ur \in user_roles : ur.user_id = user_id /\ ur.role_id \in FlaggedRoleIds

SuperAdminUsers == {u \in users : HoldsFlaggedRole(u.id)}

\* the read view of a stored user: its id, its name and its roles, resolved to
\* the stored rows, in assignment order
ReadViewOf(user_id) ==
    LET count == Cardinality({ur \in user_roles : ur.user_id = user_id})
    IN  [id    |-> user_id,
         name  |-> (CHOOSE u \in users : u.id = user_id).name,
         roles |-> [i \in 1..count |->
                       CHOOSE r \in roles : \E ur \in user_roles :
                           ur.user_id = user_id /\ ur.position = i - 1 /\ ur.role_id = r.id]]

\* two names are equal ignoring letter case
EqualIgnoringCase(a, b) == str_lower(a) = str_lower(b)

\* the ids named by a list
Range(ids) == {ids[i] : i \in 1..Len(ids)}

\* the sequences of a sequence, joined in order
RECURSIVE Concat(_)
Concat(seqs) == IF seqs = <<>> THEN <<>> ELSE Head(seqs) \o Concat(Tail(seqs))

\* where x first occurs in src
FirstIndex(src, x) == CHOOSE i \in 1..Len(src) : src[i] = x /\ \A k \in 1..(i - 1) : src[k] # x

\* out holds every element of src once, at the place of its first occurrence
IsFirstOccurrences(out, src) ==
    /\ \A i, j \in 1..Len(out) : i # j => out[i] # out[j]
    /\ Range(out) = Range(src)
    /\ \A i, j \in 1..Len(out) : i < j => FirstIndex(src, out[i]) < FirstIndex(src, out[j])

\* the menus of a stored user's roles, in role order and then menu order
AllMenusOf(user_id) ==
    Concat([i \in 1..Len(ReadViewOf(user_id).roles) |-> ReadViewOf(user_id).roles[i].menus])

\* ------------------------------------------------------------------ claims
\* C1: in every state reached by service calls made one at a time, at most one
\* stored user has a role whose is_super_admin flag is true.
C1_AtMostOneSuperAdminUser == Cardinality(SuperAdminUsers) <= 1

\* C1 witness: a super-admin user is stored beside another user, and a further
\* request for a super-admin user has just been made
C1_Witness ==
    /\ Cardinality(SuperAdminUsers) = 1
    /\ Cardinality(users) >= 2
    /\ call.op = "create_user"
    /\ Range(call.payload.role_ids) \cap FlaggedRoleIds # {}

\* C2: under any interleaving of two concurrent createUser calls that both
\* assign a flagged role, at most one succeeds: no reachable state holds two
\* super-admin users.
C2_NoTwoSuperAdminUsers == \A u1, u2 \in SuperAdminUsers : u1 = u2

\* C3: when a user already holds a flagged role, a createUser request whose role
\* ids all exist and include a flagged role fails with BadRequest and leaves the
\* users, the roles and the associations as they were.
C3_SecondSuperAdminRejected ==
    [][(/\ call'.op = "create_user"
        /\ SuperAdminUsers # {}
        /\ Range(call'.payload.role_ids) \subseteq StoredRoleIds
        /\ Range(call'.payload.role_ids) \cap FlaggedRoleIds # {})
       => (result' = Raise("BadRequestError") /\ store' = store)]_vars

\* C3 witness: such a request, naming a flagged role after a plain one, was
\* rejected while a super-admin user is stored
C3_Witness ==
    /\ call.op = "create_user"
    /\ SuperAdminUsers # {}
    /\ Range(call.payload.role_ids) \subseteq StoredRoleIds
    /\ Len(call.payload.role_ids) = 2
    /\ call.payload.role_ids[1] \notin FlaggedRoleIds
    /\ call.payload.role_ids[2] \in FlaggedRoleIds
    /\ result = Raise("BadRequestError")

\* C4: a valid createRole request whose trimmed name equals, ignoring letter
\* case, the name of a stored role fails with BadRequest and adds no role.
C4_DuplicateNameRejected ==
    [][(/\ call'.op = "create_role"
        /\ RoleCreate_normalized(call'.payload).exc = "none"
        /\ \E r \in roles : EqualIgnoringCase(r.name, strip(call'.payload.name)))
       => (result' = Raise("BadRequestError") /\ roles' = roles)]_vars

\* C5: a createRole request with is_super_admin = true fails with BadRequest,
\* whatever its name and menus, and adds no role.
C5_SuperAdminRoleRejected ==
    [][(call'.op = "create_role" /\ call'.payload.is_super_admin)
       => (result' = Raise("BadRequestError") /\ roles' = roles)]_vars

\* C5 witness: a flagged request with a valid, unused name was rejected
C5_Witness ==
    /\ call.op = "create_role"
    /\ call.payload.is_super_admin
    /\ RoleCreate_normalized(call.payload).exc = "none"
    /\ \A r \in roles : ~EqualIgnoringCase(r.name, strip(call.payload.name))
    /\ Cardinality(roles) >= 2
    /\ result = Raise("BadRequestError")

\* C6: constructing the service on a repository without roles creates exactly
\* the role "Super Administrador" with menus ["admin"] and the flag; constructing
\* it on a repository with roles creates none; and after every createRole and
\* createUser exactly one stored role is flagged.
C6_Bootstrap ==
    [][/\ (call'.op = "RoleService" /\ roles = {})
             => \E id \in 1..MaxId : roles' = {SuperAdminRole(id)}
       /\ (call'.op = "RoleService" /\ roles # {}) => roles' = roles
       /\ call'.op \in {"create_role", "create_user"}
             => Cardinality({r \in roles' : r.is_super_admin}) = 1]_vars

\* C7: for a stored user r none of whose roles is flagged, listUsers(r) returns
\* exactly one entry, the read view of r, however many users are stored.
C7_NonSuperAdminSeesSelf ==
    (/\ call.op = "list_users"
     /\ call.requester_id \in StoredUserIds
     /\ ~HoldsFlaggedRole(call.requester_id))
    => result = Return(<<ReadViewOf(call.requester_id)>>)

\* C7 witness: a plain user listed the users while a super admin and itself
\* are stored
C7_Witness ==
    /\ call.op = "list_users"
    /\ call.requester_id \in StoredUserIds
    /\ ~HoldsFlaggedRole(call.requester_id)
    /\ SuperAdminUsers # {}
    /\ result.exc = "none"

\* C8: for a requester that holds no flagged role and a user id different from
\* the requester's, getUser fails with Permission and returns no user data,
\* whether or not either id is stored.
C8_NonSuperAdminDenied ==
    (/\ call.op = "get_user"
     /\ ~HoldsFlaggedRole(call.requester_id)
     /\ call.requester_id # call.user_id)
    => result = Raise("PermissionError")

\* C8 witness: a stored plain user asked for the stored super admin
C8_Witness ==
    /\ call.op = "get_user"
    /\ call.requester_id \in StoredUserIds
    /\ ~HoldsFlaggedRole(call.requester_id)
    /\ call.user_id \in StoredUserIds
    /\ HoldsFlaggedRole(call.user_id)
    /\ result = Raise("PermissionError")

\* C9: for a requester that holds a flagged role at any position of its role
\* list, listUsers returns one entry for every stored user and nothing else.
C9_SuperAdminSeesAll ==
    (call.op = "list_users" /\ HoldsFlaggedRole(call.requester_id))
    => /\ result.exc = "none"
       /\ Len(result.val) = Cardinality(users)
       /\ \A u \in users : \E i \in 1..Len(result.val) : result.val[i] = ReadViewOf(u.id)

\* C9 witness: the requester's flagged role is the second of its roles and
\* another user is stored
C9_Witness ==
    /\ call.op = "list_users"
    /\ \E ur \in user_roles :
          /\ ur.user_id = call.requester_id
          /\ ur.role_id \in FlaggedRoleIds
          /\ ur.position = 1
    /\ Cardinality(users) >= 2
    /\ result.exc = "none"

\* C10: for a requester id that is not the id of a stored user, listUsers and
\* listMyMenus fail with NotFound and return no data.
C10_UnknownRequesterNotFound ==
    (call.op \in {"list_users", "list_my_menus"} /\ call.requester_id \notin StoredUserIds)
    => result = Raise("NotFoundError")

\* C10 witness: listMyMenus of an unknown requester failed while users are stored
C10_Witness ==
    /\ call.op = "list_my_menus"
    /\ call.requester_id \notin StoredUserIds
    /\ users # {}
    /\ result = Raise("NotFoundError")

\* C11: for a stored user, listMyMenus returns the menus of the user's roles in
\* role-assignment order and then menu order, each distinct menu once, at the
\* place of its first occurrence.
C11_MenusFirstOccurrence ==
    (call.op = "list_my_menus" /\ call.requester_id \in StoredUserIds)
    => /\ result.exc = "none"
       /\ IsFirstOccurrences(result.val, AllMenusOf(call.requester_id))

\* C11 witness: the user has two roles that share menus, and fewer menus were
\* returned than its roles list
C11_Witness ==
    /\ call.op = "list_my_menus"
    /\ call.requester_id \in StoredUserIds
    /\ Len(ReadViewOf(call.requester_id).roles) = 2
    /\ Range(ReadViewOf(call.requester_id).roles[1].menus)
          \cap Range(ReadViewOf(call.requester_id).roles[2].menus) # {}
    /\ result.exc = "none"
    /\ Len(result.val) < Len(AllMenusOf(call.requester_id))

\* C12 as stated: every createUser request naming a role id that is not stored
\* fails with NotFound and stores nothing.
C12_UnknownRoleNotFound ==
    [][(/\ call'.op = "create_user"
        /\ ~(Range(call'.payload.role_ids) \subseteq StoredRoleIds))
       => (result' = Raise("NotFoundError") /\ store' = store)]_vars

\* C12: a createUser request whose name is not blank after trimming and which
\* names a role id that is not stored fails with NotFound and stores neither
\* the user nor any association, even when its other role ids are stored.
C12_UnknownRoleNotFoundValidName ==
    [][(/\ call'.op = "create_user"
        /\ Len(strip(call'.payload.name)) >= 1
        /\ ~(Range(call'.payload.role_ids) \subseteq StoredRoleIds))
       => (result' = Raise("NotFoundError") /\ store' = store)]_vars

\* C12 witness: a request with a valid name, a stored role id first and an
\* unknown one second, was rejected with NotFound
C12_Witness ==
    /\ call.op = "create_user"
    /\ Len(strip(call.payload.name)) >= 1
    /\ Len(call.payload.role_ids) = 2
    /\ call.payload.role_ids[1] \in StoredRoleIds
    /\ call.payload.role_ids[2] \notin StoredRoleIds
    /\ result = Raise("NotFoundError")

C15_EmptyRolesValidationError ==
    [][(call'.op = "create_user" /\ call'.payload.role_ids = <<>>)
       => (result' = Raise("ValidationError") /\ store' = store)]_vars

\* C15: a createUser request with an empty role id list is rejected by
\* validation before any repository access, and the service reports it as
\* BadRequest: no user, no association and no identifier is produced.
C15_EmptyRolesRejectedByValidation ==
    [][(call'.op = "create_user" /\ call'.payload.role_ids = <<>>)
       => /\ UserCreate_normalized(call'.payload) = Raise("ValidationError")
          /\ result' = Raise("BadRequestError")
          /\ store' = store
          /\ uuids' = uuids]_vars

\* C15 witness: a request with a valid name and no role ids was rejected while
\* roles are stored
C15_Witness ==
    /\ call.op = "create_user"
    /\ call.payload.role_ids = <<>>
    /\ Len(strip(call.payload.name)) >= 1
    /\ roles # {}
    /\ result = Raise("BadRequestError")

\* C16: RoleService.create_user called with an empty role_ids list raises
\* BadRequestError and stores no user.
C16_EmptyRolesBadRequest ==
    [][(call'.op = "create_user" /\ call'.payload.role_ids = <<>>)
       => (result' = Raise("BadRequestError") /\ users' = users)]_vars

\* C16 witness: the call was rejected while a user is already stored
C16_Witness ==
    /\ call.op = "create_user"
    /\ call.payload.role_ids = <<>>
    /\ users # {}
    /\ result = Raise("BadRequestError")

\* C19: getUser(r, u) is refused with Permission exactly when r # u and r holds
\* no flagged role; otherwise it returns the read view of u when u is stored and
\* fails with NotFound when it is not, also when r = u.
C19_GetUserAllowedExactly ==
    call.op = "get_user"
    => LET allowed == call.requester_id = call.user_id \/ HoldsFlaggedRole(call.requester_id)
       IN  /\ (result = Raise("PermissionError")) <=> ~allowed
           /\ allowed => result = IF call.user_id \in StoredUserIds
                                  THEN Return(ReadViewOf(call.user_id))
                                  ELSE Raise("NotFoundError")

\* C19 witness: an id that is not stored asked for itself while a super admin
\* and another user are stored, and got NotFound
C19_Witness ==
    /\ call.op = "get_user"
    /\ call.requester_id = call.user_id
    /\ call.user_id \notin StoredUserIds
    /\ SuperAdminUsers # {}
    /\ Cardinality(users) >= 2
    /\ result = Raise("NotFoundError")

\* the user views a finished concurrent read holds: those of get_user and
\* list_users, and the view create_user builds of the user it inserted
ReadViews(t) ==
    IF pc[t] = "idle" /\ frame[t].op \in {"get_user", "list_users", "create_user"}
    THEN IF frame[t].result.exc # "none" THEN {}
         ELSE IF frame[t].op = "list_users" THEN Range(frame[t].result.val)
         ELSE {frame[t].result.val}
    ELSE {}

\* C17: under any interleaving of createUser, reset, listUsers and getUser, no
\* read returns a user with zero roles, or with fewer or more roles than the
\* associations stored for it while it is stored.
C17_NoPartialUserRead ==
    \A t \in Threads : \A view \in ReadViews(t) :
        /\ view.roles # <<>>
        /\ view.id \in StoredUserIds
              => Len(view.roles) = Cardinality({ur \in user_roles : ur.user_id = view.id})

\* C18: under any interleaving of concurrent createRole calls, no two stored
\* roles have names that are equal ignoring letter case.
C18_NoTwoRolesEqualIgnoringCase ==
    \A r1, r2 \in roles : EqualIgnoringCase(r1.name, r2.name) => r1 = r2

\* C20: a concurrent createRole call either returns the role or fails with
\* BadRequest; a violation of the uniqueness constraint of the storage never
\* reaches the caller untranslated.
C20_UniqueViolationTranslated ==
    \A t \in Threads :
        (pc[t] = "idle" /\ frame[t].op = "create_role")
        => frame[t].result.exc \in {"none", "BadRequestError"}

\* the association rows stored for a user
AssociationsOf(urs, user_id) == {ur \in urs : ur.user_id = user_id}

\* C22: every step of createRole, createUser, listRoles, listUsers, getUser and
\* listMyMenus keeps every stored role and every stored user with its ordered
\* role list as it is; createRole changes no user, createUser changes no role,
\* and the reads change nothing.
C22_StoredRowsImmutable ==
    [][/\ \A r \in roles : r \in roles'
       /\ \A u \in users : /\ u \in users'
                           /\ AssociationsOf(user_roles', u.id) = AssociationsOf(user_roles, u.id)
       /\ call'.op = "create_role" => (users' = users /\ user_roles' = user_roles)
       /\ call'.op = "create_user" => roles' = roles
       /\ call'.op \in {"list_roles", "list_users", "get_user", "list_my_menus"}
             => store' = store]_vars

\* C22 witness: a second user was created, with another role than the first
\* user's, while two roles are stored
C22_Witness ==
    /\ call.op = "create_user"
    /\ result.exc = "none"
    /\ Cardinality(users) = 2
    /\ Cardinality(roles) >= 2
    /\ \E u \in users : u.id # result.val.id
                        /\ {ur.role_id : ur \in AssociationsOf(user_roles, u.id)}
                              # {ur.role_id : ur \in AssociationsOf(user_roles, result.val.id)}

\* C23: in every state reachable by interleaving createUser with reset, every
\* stored user has an association, no role id twice, and only associations to
\* stored roles.
C23_AssociationsWellFormed ==
    \A u \in users :
        /\ AssociationsOf(user_roles, u.id) # {}
        /\ \A a, b \in AssociationsOf(user_roles, u.id) : a.role_id = b.role_id => a = b
        /\ \A a \in AssociationsOf(user_roles, u.id) : a.role_id \in StoredRoleIds

====
